---- MODULE Spec2Model ----
(***************************************************************************)
(* Multi-Build: the room channel (connectWebSocket / disconnectWebSocket   *)
(* and the socket's open, message and close handlers), sendMessage with    *)
(* the heartbeat, and the reaction pipeline (handleSyncData /              *)
(* checkoutBranch) of src/unnamed/part_001.  The sendMessage of            *)
(* src/unnamed/part_003, which differs in its keep-alive branch, is        *)
(* modelled next to it (SendMessageLater, SpecLater).                      *)
(* The wire form of an envelope (JSON.stringify / JSON.parse) is modelled  *)
(* on texts as sequences of characters (Stringify, Parse, SpecCodec).      *)
(*                                                                         *)
(* The extension host runs one JavaScript event loop.  An action of this   *)
(* module is one run-to-completion segment of it: an event handler, or the *)
(* continuation of an async function after an await, up to the next await  *)
(* on a collaborator (auth session, git, cmake, timer).  An await on an    *)
(* already settled promise only yields to the microtask queue, which is    *)
(* drained before the next event: such a continuation is either folded in  *)
(* the segment or given priority over every event (MicrotaskPending).      *)
(***************************************************************************)
EXTENDS Integers, Sequences, FiniteSets, Bags, TLC

VARIABLES
    phase,            \* "loaded" | "active" | "deactivated" (activate / deactivate)
    roomId,           \* multiBuild.server.roomId in the settings, NoRoom when unset
    activeSocket,     \* var activeSocket: 0 is undefined, else a socket id
    connected,        \* var connected
    keepAlive,        \* var keepAlive: 0 is undefined, else the id of an interval timer
    timers,           \* interval timers that are running (setInterval not yet cleared)
    sockets,          \* every WebSocket created so far, by id, in creation order
    calls,            \* connectWebSocket invocations suspended at an await
    pendingReconnect, \* armed setTimeout(connectWebSocket, retryDelay) timers
    localBranches,    \* local branches of the repository open in the workspace
    reactions,        \* message handlers suspended in a collaborator call (a bag)
    last,             \* the message handler invocation that returned most recently
    lastSend,         \* the sendMessage invocation that returned or threw most recently
    lastConnect,      \* the connectWebSocket invocation that returned or threw most recently
    wire,             \* the sync record last encoded, its wire text, and the text decoded
    syncData,         \* multiBuild.syncData in the settings
    push,             \* the pushRepoSettings invocation: suspended, or as it ended
    lastTimestamp,    \* let lastTimestamp of the file-watcher variant
    watched,          \* build-command.json and the listeners registered on it
    builds            \* the checkout/configure/build sequences the watcher started

chanVars == <<activeSocket, connected, keepAlive, timers>>
connVars == <<phase, roomId, sockets, calls, pendingReconnect>>
reactVars == <<localBranches, reactions, last>>
syncVars == <<syncData, push>>
watchVars == <<lastTimestamp, watched, builds>>
obsVars == <<lastSend, lastConnect, wire, syncVars, watchVars>>
vars == <<phase, roomId, activeSocket, connected, keepAlive, timers, sockets, calls,
          pendingReconnect, localBranches, reactions, last, lastSend, lastConnect, wire,
          syncData, push, lastTimestamp, watched, builds>>

----------------------------------------------------------------------------
(* Bounds *)

\* Sockets created in one behaviour; no connectWebSocket call starts unless
\* a socket id is left for it.
MaxSockets == 3

NoRoom == ""
Rooms == {"r1"}
GeneratedRoom == "uuid"

\* Message handlers suspended in a collaborator call at the same time.
MaxReactions == 2

\* The same where reactions meet the life of the channel.
MaxInFlight == 1

\* Characters in the repo field of an encoded sync record.
MaxLen == 2

\* Envelopes the heartbeat ticks and the sync command write in one behaviour
\* (the hello of an open handler is not counted).
MaxSent == 2

\* Sockets created in one behaviour of the heartbeat specifications, which
\* follow every tick of every timer: two sockets are what overlapping connect
\* calls need.
MaxBeating == 2

SocketIds == 1..Len(sockets)

\* The workspace: the repositories the Git extension has open (by the base
\* name of their root), and the local branches of that repository at start.
OpenRepos == {"app"}
InitialBranches == {"main"}

\* Field values of inbound sync records; "" stands for an empty or a missing
\* field (both are falsy).
RepoNames == {"", "app", "lib"}
RemoteNames == {"", "origin"}
BranchNames == {"", "main", "feature-x"}

----------------------------------------------------------------------------
(* connectWebSocket invocations *)

CallsAt(pc) == {i \in 1..Len(calls) : calls[i].pc = pc}

RemoveAt(seq, i) == SubSeq(seq, 1, i - 1) \o SubSeq(seq, i + 1, Len(seq))

\* An event loop that a message handler holds until its collaborator call has
\* returned (a synchronous call in the place of the await).
MicrotaskPendingOrBusy == CallsAt("config") # {} \/ reactions # EmptyBag

\* A continuation that is already in the microtask queue: the one behind
\* `await getServerConfig()`, whose promise is settled when it is returned.
MicrotaskPending == CallsAt("config") # {}

\* Whether one more connectWebSocket call may start within the bounds.
CanStartCall == Len(sockets) + Len(calls) < MaxSockets

\* The same within the bounds of the heartbeat specifications.
CanStartBeating == Len(sockets) + Len(calls) < MaxBeating

\* connectWebSocket() up to `await getServerConfig()`: the body of
\* getServerConfig has no await, so the settings are read at the call; by is
\* "timer" for the callback of a reconnect timer and "other" for init, the
\* configuration watcher and the reconnect command.
StartCall(cs, by) == Append(cs, [pc |-> "config", room |-> roomId, by |-> by])

----------------------------------------------------------------------------
(* disconnectWebSocket *)

\* WebSocket.close(): an open socket starts the closing handshake and emits
\* close later; a connecting one aborts its handshake and emits close on the
\* next tick, ahead of every continuation and event, where the close handler
\* reads the connected = false that disconnectWebSocket has just written and
\* returns; on a closing or closed socket it does nothing.
SocketClosed(sock) ==
    CASE sock.state = "open" -> [sock EXCEPT !.state = "closing", !.retired = TRUE]
      [] sock.state = "connecting" -> [sock EXCEPT !.state = "closed", !.retired = TRUE]
      [] OTHER -> sock

\* A disconnectWebSocket that does not write the connected flag.
DisconnectFlagKept == connected

\* The connected flag disconnectWebSocket leaves, written before close().
DisconnectFlag == FALSE

\* disconnectWebSocket without its early return: with no handle held the
\* timer is cleared, the flag is written and `activeSocket.close()` throws.
DisconnectNoEarlyReturn ==
    IF activeSocket = 0
    THEN [sockets |-> sockets, activeSocket |-> 0, connected |-> DisconnectFlag,
          timers |-> timers \ {keepAlive}, raised |-> TRUE]
    ELSE [sockets |-> [sockets EXCEPT ![activeSocket] = SocketClosed(@)],
          activeSocket |-> 0,
          connected |-> DisconnectFlag,
          timers |-> timers \ {keepAlive},
          raised |-> FALSE]

\* disconnectWebSocket(): values of (sockets, activeSocket, connected, timers)
\* after the call, and whether it threw; keepAlive keeps its (cleared) handle.
Disconnect ==
    IF activeSocket = 0
    THEN [sockets |-> sockets, activeSocket |-> activeSocket,
          connected |-> connected, timers |-> timers, raised |-> FALSE]
    ELSE [sockets |-> [sockets EXCEPT ![activeSocket] = SocketClosed(@)],
          activeSocket |-> 0,
          connected |-> DisconnectFlag,
          timers |-> timers \ {keepAlive},
          raised |-> FALSE]

----------------------------------------------------------------------------
(* sendMessage *)

\* WebSocket.send(text) on socket record sock: it throws while the socket is
\* connecting, writes the envelope while it is open, and drops it without an
\* error once the socket is closing or closed (no callback is passed).
SocketSend(sock, type) ==
    CASE sock.state = "connecting" -> [outcome |-> "TransportError", sock |-> sock]
      [] sock.state = "open" ->
            [outcome |-> "written", sock |-> [sock EXCEPT !.sent = Append(@, type)]]
      [] OTHER -> [outcome |-> "dropped", sock |-> sock]

\* One sendMessage invocation: who called it (by: the open handler or the
\* heartbeat timer of a socket, or the sync command), the state of that
\* socket at the call (fromState), the envelope type, the state of the socket
\* held in activeSocket ("none" without a handle), whether that is the
\* caller's own socket (own), and how the invocation ended.
SendRecord(by, fromState, type, state, own, outcome) ==
    [by |-> by, fromState |-> fromState, type |-> type, state |-> state, own |-> own,
     outcome |-> outcome]

NoSend == SendRecord("none", "none", "none", "none", FALSE, "none")

\* sendMessage({type}) called from socket from (0 for the command) with the
\* sockets as in socks: the invocation record and the sockets afterwards.
SendMessage(socks, by, from, type) ==
    LET fromState == IF from = 0 THEN "none" ELSE socks[from].state
    IN  IF activeSocket = 0
        THEN [send |-> SendRecord(by, fromState, type, "none", FALSE, "NotConnected"),
              sockets |-> socks]
        ELSE LET w == SocketSend(socks[activeSocket], type)
             IN  [send |-> SendRecord(by, fromState, type, socks[activeSocket].state,
                                      activeSocket = from, w.outcome),
                  sockets |-> [socks EXCEPT ![activeSocket] = w.sock]]

\* sendMessage as of part_003: a keep-alive envelope is written to
\* roomSocket, a name that file neither declares nor assigns, so evaluating
\* it throws a ReferenceError; every other type goes to activeSocket.
SendMessageLater(socks, by, from, type) ==
    IF activeSocket # 0 /\ type = "keep-alive"
    THEN [send |-> SendRecord(by, socks[from].state, type, socks[activeSocket].state,
                              activeSocket = from, "ReferenceError"),
          sockets |-> socks]
    ELSE SendMessage(socks, by, from, type)

\* Whether a sendMessage invocation returned normally.
SendReturns(send) == send.outcome \in {"written", "dropped"}

\* The envelopes ticks and commands have written on sockets 1..k.
RECURSIVE Written(_)
Written(k) ==
    IF k = 0 THEN 0
    ELSE Written(k - 1) + Len(SelectSeq(sockets[k].sent, LAMBDA e : e # "hello"))

\* Whether a tick or a command may still write within the bounds.
SendFits(r) ==
    r.send.outcome = "written" => Written(Len(sockets)) < MaxSent

----------------------------------------------------------------------------
(* getAuthToken and the callers' catch blocks *)

\* A token provider whose failure is swallowed.
GetAuthTokenNeverThrows(tokenOk) == FALSE

\* getAuthToken(): `if (!session) throw` (a rejected getSession throws too).
GetAuthTokenThrows(tokenOk) == ~tokenOk

\* One connectWebSocket invocation that has returned or thrown: what the
\* token provider yielded ("none" when it was not asked), whether a socket was
\* created, the error the caller passed to handleError ("" on return), and
\* the room in the URL of the socket created (NoRoom when none was).
ConnectRecord(token, created, shown, room) ==
    [token |-> token, created |-> created, shown |-> shown, room |-> room]

NoConnect == ConnectRecord("none", FALSE, "", NoRoom)

----------------------------------------------------------------------------
(* The wire form: JSON.stringify in sendMessage, JSON.parse in the message
   handler.  A text is a sequence of characters; a value is a string
   (kind "string", chars) or an object (kind "object", members in insertion
   order, each a key and a value). *)

Quote == "\""
Backslash == "\\"
LineFeed == "\n"

\* The characters of field values: a letter, and the three characters
\* JSON.stringify escapes here.
Chars == {"n", Quote, Backslash, LineFeed}

\* The texts of 1..n characters.
Texts(n) == UNION {[1..k -> Chars] : k \in 1..n}

Str(chars) == [kind |-> "string", chars |-> chars]
Obj(members) == [kind |-> "object", members |-> members]
Member(key, value) == [key |-> key, value |-> value]

TypeKey == <<"t", "y", "p", "e">>
DataKey == <<"d", "a", "t", "a">>
RepoKey == <<"r", "e", "p", "o">>
RemoteKey == <<"r", "e", "m", "o", "t", "e">>
BranchKey == <<"b", "r", "a", "n", "c", "h">>
TargetKey == <<"t", "a", "r", "g", "e", "t">>
SyncType == <<"s", "y", "n", "c">>

\* The sync records sent: repo, remote and branch non-empty, with or without
\* one build-tool field (target).
SyncRecords ==
    {Obj(<<Member(RepoKey, Str(repo)), Member(RemoteKey, Str(remote)),
           Member(BranchKey, Str(branch))>>) :
        repo \in Texts(MaxLen), remote \in Texts(1), branch \in Texts(1)}
    \cup
    {Obj(<<Member(RepoKey, Str(repo)), Member(RemoteKey, Str(remote)),
           Member(BranchKey, Str(branch)), Member(TargetKey, Str(target))>>) :
        repo \in Texts(MaxLen), remote \in Texts(1), branch \in Texts(1),
        target \in Texts(1)}

\* The JSON escape of one character of a string.
Escape(c) ==
    CASE c = Quote -> <<Backslash, Quote>>
      [] c = Backslash -> <<Backslash, Backslash>>
      [] c = LineFeed -> <<Backslash, "n">>
      [] OTHER -> <<c>>

RECURSIVE EscapeAll(_)
EscapeAll(chars) ==
    IF chars = <<>> THEN <<>> ELSE Escape(Head(chars)) \o EscapeAll(Tail(chars))

\* A string written between quotes as it is.
QuoteTextRaw(chars) == <<Quote>> \o chars \o <<Quote>>

\* JSON.stringify of a string.
QuoteText(chars) == <<Quote>> \o EscapeAll(chars) \o <<Quote>>

\* JSON.stringify of a value.
RECURSIVE Stringify(_), StringifyMembers(_)
Stringify(v) ==
    IF v.kind = "string" THEN QuoteText(v.chars)
    ELSE <<"{">> \o StringifyMembers(v.members) \o <<"}">>

StringifyMembers(members) ==
    IF members = <<>> THEN <<>>
    ELSE QuoteText(members[1].key) \o <<":">> \o Stringify(members[1].value)
         \o (IF Len(members) > 1 THEN <<",">> \o StringifyMembers(Tail(members)) ELSE <<>>)

\* The result of parsing a prefix of a text: the value and the text left,
\* or a SyntaxError.
Parsed(value, rest) == [ok |-> TRUE, value |-> value, rest |-> rest]
SyntaxError == [ok |-> FALSE, value |-> Str(<<>>), rest |-> <<>>]

\* The string whose opening quote has been read, acc being the characters
\* read so far: a backslash is followed by the character it stands for, and
\* a control character is not allowed as it is.
RECURSIVE ParseString(_, _)
ParseString(text, acc) ==
    IF text = <<>> THEN SyntaxError
    ELSE LET c == Head(text)
         IN  CASE c = Quote -> Parsed(Str(acc), Tail(text))
               [] c = LineFeed -> SyntaxError
               [] c = Backslash ->
                    IF Len(text) < 2 THEN SyntaxError
                    ELSE LET e == text[2]
                             rest == Tail(Tail(text))
                         IN  CASE e = Quote -> ParseString(rest, Append(acc, Quote))
                               [] e = Backslash -> ParseString(rest, Append(acc, Backslash))
                               [] e = "n" -> ParseString(rest, Append(acc, LineFeed))
                               [] OTHER -> SyntaxError
               [] OTHER -> ParseString(Tail(text), Append(acc, c))

\* JSON.parse of a value at the head of a text, and of the members of an
\* object whose opening brace (and the members acc) have been read.
RECURSIVE ParseValue(_), ParseMembers(_, _)
ParseValue(text) ==
    IF text = <<>> THEN SyntaxError
    ELSE CASE Head(text) = Quote -> ParseString(Tail(text), <<>>)
           [] Head(text) = "{" ->
                IF Len(text) > 1 /\ text[2] = "}"
                THEN Parsed(Obj(<<>>), Tail(Tail(text)))
                ELSE ParseMembers(Tail(text), <<>>)
           [] OTHER -> SyntaxError

ParseMembers(text, acc) ==
    IF text = <<>> \/ Head(text) # Quote THEN SyntaxError
    ELSE LET key == ParseString(Tail(text), <<>>)
         IN  IF ~key.ok \/ key.rest = <<>> \/ Head(key.rest) # ":" THEN SyntaxError
             ELSE LET val == ParseValue(Tail(key.rest))
                      members == Append(acc, Member(key.value.chars, val.value))
                  IN  IF ~val.ok \/ val.rest = <<>> THEN SyntaxError
                      ELSE CASE Head(val.rest) = "," -> ParseMembers(Tail(val.rest), members)
                             [] Head(val.rest) = "}" -> Parsed(Obj(members), Tail(val.rest))
                             [] OTHER -> SyntaxError

\* JSON.parse(text): the whole text is one value.
Parse(text) ==
    LET p == ParseValue(text)
    IN  IF p.ok /\ p.rest = <<>> THEN p ELSE SyntaxError

\* message.type, message.data: the member of object v with that key, or
\* undefined.
UndefinedValue == [kind |-> "undefined"]
Get(v, key) ==
    IF v.kind = "object" /\ \E k \in 1..Len(v.members) : v.members[k].key = key
    THEN v.members[CHOOSE k \in 1..Len(v.members) : v.members[k].key = key].value
    ELSE UndefinedValue

\* Nothing encoded yet.
NoWire == [stage |-> "idle", record |-> Obj(<<>>), text |-> <<>>, parsed |-> SyntaxError]

----------------------------------------------------------------------------
(* Inbound messages *)

SyncData == [repo : RepoNames, remote : RemoteNames, branch : BranchNames]
NoData == [repo |-> "", remote |-> "", branch |-> ""]
NoType == "<undefined>"
Types == {"hello", "ack", "error", "sync", "keep-alive", "bogus", NoType}

\* A member that is absent reads as undefined; ErrorText is the message an
\* error envelope of the relay carries.
Undefined == "undefined"
ErrorText == "room is full"

\* The text of a "message" event by what JSON.parse makes of it: text it
\* rejects (json = FALSE), text it parses to null (object = FALSE), or the
\* object it parses to, with its type, data and message members and the
\* message member of its data (hasData = FALSE when the object has no data).
Envelope(json, object, type, hasData, data, message, dataMessage) ==
    [json |-> json, object |-> object, type |-> type, hasData |-> hasData, data |-> data,
     message |-> message, dataMessage |-> dataMessage]

Inbound ==
    {Envelope(FALSE, FALSE, NoType, FALSE, NoData, Undefined, Undefined),
     Envelope(TRUE, FALSE, NoType, FALSE, NoData, Undefined, Undefined)}
    \cup {Envelope(TRUE, TRUE, t, FALSE, NoData, Undefined, Undefined) : t \in Types}
    \cup {Envelope(TRUE, TRUE, "sync", TRUE, d, Undefined, Undefined) : d \in SyncData}
    \cup {Envelope(TRUE, TRUE, "error", TRUE, NoData, Undefined, ErrorText),
          Envelope(TRUE, TRUE, "error", FALSE, NoData, ErrorText, Undefined)}

\* One invocation of the message handler: the socket and message it is for,
\* whether that socket was still the one held in activeSocket when the
\* message arrived (stale when not), the call it is suspended in (pc), the
\* collaborator calls it has made with their results (log), the error
\* messages it has shown to the user (shown), the errors it has written to
\* the console (logged) and how it ended (outcome, "running" until it
\* returns).
NewReaction(s, m) ==
    [sock |-> s, msg |-> m, stale |-> s # activeSocket, pc |-> "start", log |-> <<>>,
     shown |-> <<>>, logged |-> <<>>, outcome |-> "running"]

NoReaction ==
    [sock |-> 0, msg |-> Envelope(FALSE, FALSE, NoType, FALSE, NoData, Undefined, Undefined),
     stale |-> FALSE, pc |-> "none", log |-> <<>>, shown |-> <<>>, logged |-> <<>>,
     outcome |-> "none"]

\* The reaction calls collaborator method op at program position pos and is
\* suspended until the call returns.
Call(r, pos, op, args) ==
    [r EXCEPT !.pc = pos, !.log = Append(@, [op |-> op, args |-> args, res |-> "pending"])]

\* A collaborator call that returns at once.
CallNow(r, op, args, res) ==
    [r EXCEPT !.log = Append(@, [op |-> op, args |-> args, res |-> res])]

\* The pending collaborator call has returned (or thrown).
Returned(r, res) == [r EXCEPT !.log[Len(r.log)].res = res]

Finish(r, outcome) == [r EXCEPT !.pc = "done", !.outcome = outcome]

\* vscode.window.showErrorMessage
ShowError(r, text) == [r EXCEPT !.shown = Append(@, text)]

\* console.error
Log(r, text) == [r EXCEPT !.logged = Append(@, text)]

\* An error handler that only logs.
HandleErrorLogOnly(r, error) == Log(r, error)

\* handleError(error): the error is logged and shown to the user; nothing
\* else is touched.
HandleError(r, error) == ShowError(Log(r, error), error)

\* A handler without its try/catch: the error rejects the promise of the
\* async handler, which nobody awaits.
Uncaught(r, error) == Finish(r, "unhandled rejection")

\* The catch block of the message handler.
Caught(r, error) == Finish(HandleError(r, error), "error")

----------------------------------------------------------------------------
(* handleSyncData and checkoutBranch *)

\* A validation that forgets the remote.
ValidRecordNoRemote(d) == d.repo # "" /\ d.branch # ""

\* `!repo || !remote || !branch` is false.
ValidRecord(d) == d.repo # "" /\ d.remote # "" /\ d.branch # ""

\* A lookup that takes the first open repository whatever its name.
FindRepoFirst(repoName) == OpenRepos # {}

\* git.repositories.find(r => basename(r.rootUri.fsPath) === repoName), after
\* the `git.repositories.length === 0` check.
FindRepo(repoName) == OpenRepos # {} /\ repoName \in OpenRepos

\* `${remoteName}/${branchName}`
Ref(remoteName, branchName) == remoteName \o "/" \o branchName

\* repo.getBranch(branchName) !== undefined
GetBranch(branchName) == branchName \in localBranches

\* The build not made conditional on the checkout (as before 0.0.3).
BuildAlways(checkoutResult) == TRUE

\* `if (!checkoutResult) return;` before configure and build.
BuildAllowed(checkoutResult) == checkoutResult

\* A handleSyncData that gives up after the checkout when the channel has been
\* disconnected in the meantime.
AfterCheckoutIfConnected(r, checkoutResult) ==
    IF BuildAllowed(checkoutResult) /\ connected
    THEN Call(r, "configure", "cmake.configure", <<>>)
    ELSE Finish(r, "skipped")

\* The rest of handleSyncData once checkoutBranch has returned.
AfterCheckout(r, checkoutResult) ==
    IF BuildAllowed(checkoutResult)
    THEN Call(r, "configure", "cmake.configure", <<>>)
    ELSE Finish(r, "skipped")

\* checkoutBranch after a successful fetch: the branch on getBranch.
CheckoutFirst(r) ==
    LET d == r.msg.data
        exists == GetBranch(d.branch)
        r1 == CallNow(r, "getBranch", <<d.branch>>, IF exists THEN "found" ELSE "undefined")
    IN  IF exists
        THEN Call(r1, "checkout", "checkout", <<d.branch>>)
        ELSE Call(r1, "checkoutRef", "checkout", <<Ref(d.remote, d.branch)>>)

\* checkoutBranch without the pull after the checkout of an existing branch.
CheckoutNextNoPull(r) ==
    LET d == r.msg.data
        ref == Ref(d.remote, d.branch)
    IN  CASE r.pc = "checkoutRef" ->
                Call(r, "createBranch", "createBranch", <<d.branch, "true", ref>>)
          [] r.pc = "createBranch" ->
                Call(r, "setBranchUpstream", "setBranchUpstream", <<d.branch, ref>>)
          [] OTHER -> AfterCheckout(r, TRUE)

\* checkoutBranch after the call at r.pc has returned: the next call of the
\* same branch of the if, or `return true` back into handleSyncData.
CheckoutNext(r) ==
    LET d == r.msg.data
        ref == Ref(d.remote, d.branch)
    IN  CASE r.pc = "checkout" -> Call(r, "pull", "pull", <<>>)
          [] r.pc = "checkoutRef" ->
                Call(r, "createBranch", "createBranch", <<d.branch, "true", ref>>)
          [] r.pc = "createBranch" ->
                Call(r, "setBranchUpstream", "setBranchUpstream", <<d.branch, ref>>)
          [] OTHER -> AfterCheckout(r, TRUE)

\* checkoutBranch up to its first await.
CheckoutBranch(r) ==
    LET d == r.msg.data
        found == FindRepo(d.repo)
        r1 == CallNow(r, "repositories.find", <<d.repo>>, IF found THEN "found" ELSE "undefined")
    IN  IF found
        THEN Call(r1, "fetch", "fetch", <<d.remote, d.branch>>)
        ELSE AfterCheckout(r1, FALSE)

\* handleSyncData(message.data): destructuring an absent data throws.
HandleSyncData(r) ==
    IF ~r.msg.hasData THEN Caught(r, "TypeError")
    ELSE IF ~ValidRecord(r.msg.data) THEN Caught(r, "Invalid sync message")
    ELSE CheckoutBranch(r)

\* The error branch of the handler: console.error of the envelope's message
\* member; nothing is shown.
ErrorEnvelope(r) == Finish(Log(r, "Error message received: " \o r.msg.message), "handled")

\* A message handler whose last else only logs.
OnMessageIgnoreUnknown(s, m) ==
    LET r == NewReaction(s, m)
    IN  IF ~m.json THEN Caught(r, "SyntaxError")
        ELSE IF ~m.object THEN Caught(r, "TypeError")
        ELSE CASE m.type \in {"hello", "ack"} -> Finish(r, "handled")
               [] m.type = "error" -> ErrorEnvelope(r)
               [] m.type = "sync" -> HandleSyncData(r)
               [] OTHER -> Finish(r, "handled")

\* A message handler whose ack branch falls through into the sync branch.
OnMessageAckFallsThrough(s, m) ==
    LET r == NewReaction(s, m)
    IN  IF ~m.json THEN Caught(r, "SyntaxError")
        ELSE IF ~m.object THEN Caught(r, "TypeError")
        ELSE CASE m.type = "hello" -> Finish(r, "handled")
               [] m.type = "error" -> ErrorEnvelope(r)
               [] m.type \in {"ack", "sync"} -> HandleSyncData(r)
               [] OTHER -> Caught(r, "Unknown message type")

\* The message handler up to its first suspension: JSON.parse throws on
\* text that is not JSON, reading the type of null throws, and the last else
\* throws on every type that is not hello, ack, error or sync.
OnMessage(s, m) ==
    LET r == NewReaction(s, m)
    IN  IF ~m.json THEN Caught(r, "SyntaxError")
        ELSE IF ~m.object THEN Caught(r, "TypeError")
        ELSE CASE m.type \in {"hello", "ack"} -> Finish(r, "handled")
               [] m.type = "error" -> ErrorEnvelope(r)
               [] m.type = "sync" -> HandleSyncData(r)
               [] OTHER -> Caught(r, "Unknown message type")

\* A checkoutBranch that fetches again when the fetch has failed.
FetchFailedRetry(r) ==
    Call(ShowError(r, "Error fetching Git branch"), "fetch", "fetch",
         <<r.msg.data.remote, r.msg.data.branch>>)

\* The catch block around repo.fetch: the error is shown and checkoutBranch
\* returns false.
FetchFailed(r) == AfterCheckout(ShowError(r, "Error fetching Git branch"), FALSE)

\* How a collaborator call ends: it returns ("ok"), it returns a result that
\* reports failure ("failed": the non-zero exit code a cmake command
\* resolves to), or it throws.
Results == {"ok", "failed", "throw"}

\* The endings the code can tell apart: a call returns, whatever its result,
\* or it throws.
Endings == {"ok", "throw"}

\* The continuation of a suspended reaction when its pending call ends with
\* res.  The value a cmake command resolves to is discarded.
Resume(r, res) ==
    LET r1 == Returned(r, res)
        ok == res # "throw"
    IN  CASE r.pc = "fetch" ->
                IF ok THEN CheckoutFirst(r1) ELSE FetchFailed(r1)
          [] r.pc \in {"checkout", "pull", "checkoutRef", "createBranch",
                       "setBranchUpstream"} ->
                IF ok THEN CheckoutNext(r1) ELSE Caught(r1, "git error")
          [] r.pc = "configure" ->
                IF ok THEN [r1 EXCEPT !.pc = "wait"] ELSE Caught(r1, "cmake error")
          [] r.pc = "wait" -> Call(r, "build", "cmake.build", <<>>)
          [] r.pc = "build" ->
                IF ok THEN Finish(r1, "built") ELSE Caught(r1, "cmake error")

\* The local branches after the pending call of r has ended with res.
BranchesAfter(r, res) ==
    IF r.pc = "createBranch" /\ res = "ok"
    THEN localBranches \cup {r.msg.data.branch}
    ELSE localBranches

----------------------------------------------------------------------------
(* pushRepoSettings: the multiBuild.sync command *)

\* getSyncData() when the settings hold no multiBuild.syncData: every field
\* is undefined (falsy, written "").
NoSyncData == [repo |-> "", remote |-> "", branch |-> ""]

\* An invocation of pushRepoSettings: suspended in the settings update
\* (pc = "update"), or as it ended.
PushRecord(pc, data, shown, outcome) ==
    [pc |-> pc, data |-> data, shown |-> shown, outcome |-> outcome]

NoPush == PushRecord("idle", NoSyncData, "none", "none")

\* getRemote(repoName, currentConfig): the stored remote when the repository
\* is the stored one, else the item picked in the quick pick ("" when the
\* pick is dismissed).
GetRemote(repoName, currentConfig, pick) ==
    IF currentConfig.repo = repoName /\ currentConfig.remote # ""
    THEN currentConfig.remote
    ELSE pick

\* Checks that forget the branch.
PushRejectionNoBranch(repo, remote, branch) ==
    IF repo = "" THEN "Cannot sync, no repo specified"
    ELSE IF remote = "" THEN "Cannot sync, no remote specified"
    ELSE "none"

\* The three early returns of pushRepoSettings: the error shown, "none" when
\* the function goes on.
PushRejection(repo, remote, branch) ==
    IF repo = "" THEN "Cannot sync, no repo specified"
    ELSE IF remote = "" THEN "Cannot sync, no remote specified"
    ELSE IF branch = "" THEN "Cannot sync, no branch specified"
    ELSE "none"

----------------------------------------------------------------------------
(* The file-watcher variant: build-command.json *)

\* Timestamps written to build-command.json.
MaxTimestamp == 3

\* multiHostCmake.startWatcher invocations, each registering one listener.
MaxListeners == 2

\* What JSON.parse yields for build-command.json: a BuildCommand, or nothing
\* when the file is missing or is not JSON (an exception).
Unreadable == [command |-> "none", branch |-> "none", timestamp |-> 0]

BuildCommands ==
    [command : {"build", "clean"}, branch : {"main"}, timestamp : 0..MaxTimestamp]

\* The file, the listeners of fs.watchFile on it, and whether the file
\* changed since the last poll.
NoWatch == [file |-> Unreadable, listeners |-> 0, changed |-> FALSE]

----------------------------------------------------------------------------
(* Initial state: the module is loaded, activate() has not run *)

Init ==
    /\ phase = "loaded"
    /\ roomId \in Rooms \cup {NoRoom}
    /\ activeSocket = 0
    /\ connected = FALSE
    /\ keepAlive = 0
    /\ timers = {}
    /\ sockets = <<>>
    /\ calls = <<>>
    /\ pendingReconnect = 0
    /\ localBranches = InitialBranches
    /\ reactions = EmptyBag
    /\ last = NoReaction
    /\ lastSend = NoSend
    /\ lastConnect = NoConnect
    /\ wire = NoWire
    /\ syncData = NoSyncData
    /\ push = NoPush
    /\ lastTimestamp = 0
    /\ watched = NoWatch
    /\ builds = <<>>

----------------------------------------------------------------------------
(* Callers of connectWebSocket *)

\* activate() -> init(): a room id is generated when the settings hold none,
\* the configuration watcher is registered, connectWebSocket() is called.
Activate ==
    /\ phase = "loaded"
    /\ phase' = "active"
    /\ roomId' = IF roomId = NoRoom THEN GeneratedRoom ELSE roomId
    /\ calls' = Append(calls, [pc |-> "config", room |-> roomId', by |-> "other"])
    /\ UNCHANGED <<activeSocket, connected, keepAlive, timers, sockets, pendingReconnect,
                   reactVars, obsVars>>

\* onDidChangeConfiguration for multiBuild.server: the user edits the room id or
\* the base URL (r is the room id afterwards) and the watcher calls
\* connectWebSocket().
ConfigChange(r) ==
    /\ phase = "active"
    /\ ~MicrotaskPending
    /\ CanStartCall
    /\ roomId' = r
    /\ calls' = Append(calls, [pc |-> "config", room |-> r, by |-> "other"])
    /\ UNCHANGED <<phase, activeSocket, connected, keepAlive, timers, sockets,
                   pendingReconnect, reactVars, obsVars>>

\* The multiBuild.reconnect command.
ReconnectCommand ==
    /\ phase = "active"
    /\ ~MicrotaskPending
    /\ CanStartCall
    /\ calls' = StartCall(calls, "other")
    /\ UNCHANGED <<phase, roomId, activeSocket, connected, keepAlive, timers, sockets,
                   pendingReconnect, reactVars, obsVars>>

\* The setTimeout callback armed by a close handler.
ReconnectTimer ==
    /\ pendingReconnect > 0
    /\ ~MicrotaskPending
    /\ CanStartCall
    /\ pendingReconnect' = pendingReconnect - 1
    /\ calls' = StartCall(calls, "timer")
    /\ UNCHANGED <<phase, roomId, activeSocket, connected, keepAlive, timers, sockets,
                   reactVars, obsVars>>

----------------------------------------------------------------------------
(* connectWebSocket *)

\* A connectWebSocket that tears down first and checks the room id after.
TeardownAlways(room) == TRUE

\* `if (!roomId) throw` stands before `if (activeSocket) disconnectWebSocket()`:
\* the teardown is reached only with a room id.
TeardownReached(room) == room # NoRoom

\* After `await getServerConfig()`: the room id check, the teardown of the
\* socket held in activeSocket, and the call of getAuthToken().
ConnectTeardown(i) ==
    /\ calls[i].pc = "config"
    /\ LET d == IF TeardownReached(calls[i].room)
                THEN Disconnect
                ELSE [sockets |-> sockets, activeSocket |-> activeSocket,
                      connected |-> connected, timers |-> timers]
       IN  /\ sockets' = d.sockets
           /\ activeSocket' = d.activeSocket
           /\ connected' = d.connected
           /\ timers' = d.timers
    /\ IF calls[i].room = NoRoom
       THEN /\ calls' = RemoveAt(calls, i)     \* throw "No room ID in config"
            /\ lastConnect' = ConnectRecord("none", FALSE, "No room ID in config", NoRoom)
       ELSE /\ calls' = [calls EXCEPT ![i].pc = "token"]
            /\ UNCHANGED lastConnect
    /\ UNCHANGED <<phase, roomId, keepAlive, pendingReconnect, reactVars, lastSend, wire,
                   syncVars, watchVars>>

\* After `await getAuthToken()`: a failed token acquisition throws out of
\* connectWebSocket; otherwise the socket is created, becomes the active
\* handle, connected is set and the four handlers are attached.
ConnectCreate(i, tokenOk) ==
    /\ calls[i].pc = "token"
    /\ ~MicrotaskPending
    /\ calls' = RemoveAt(calls, i)
    /\ IF ~GetAuthTokenThrows(tokenOk)
       THEN /\ sockets' = Append(sockets, [state |-> "connecting", retired |-> FALSE,
                                           rescheduled |-> 0,
                                           retry |-> calls[i].by = "timer",
                                           sent |-> <<>>])
            /\ activeSocket' = Len(sockets) + 1
            /\ connected' = TRUE
            /\ lastConnect' = ConnectRecord(IF tokenOk THEN "session" ELSE "no session",
                                            TRUE, "", calls[i].room)
       ELSE /\ lastConnect' = ConnectRecord("no session", FALSE,
                                            "No GitHub auth session found", NoRoom)
            /\ UNCHANGED <<sockets, activeSocket, connected>>
    /\ UNCHANGED <<phase, roomId, keepAlive, timers, pendingReconnect, reactVars, lastSend,
                   wire, syncVars, watchVars>>

----------------------------------------------------------------------------
(* Socket events *)

\* "open" of socket s: sendMessage({type: "hello"}), then setInterval; an
\* exception of sendMessage leaves the handler before the timer is started.
SocketOpen(s) ==
    /\ sockets[s].state = "connecting"
    /\ ~MicrotaskPending
    /\ LET r == SendMessage([sockets EXCEPT ![s].state = "open"], "open", s, "hello")
       IN  /\ sockets' = r.sockets
           /\ lastSend' = r.send
           /\ IF SendReturns(r.send)
              THEN /\ keepAlive' = s
                   /\ timers' = timers \cup {s}
              ELSE UNCHANGED <<keepAlive, timers>>
    /\ UNCHANGED <<phase, roomId, activeSocket, connected, calls, pendingReconnect, reactVars,
                   lastConnect, wire, syncVars, watchVars>>

\* A firing of interval timer t with the sendMessage result r: an exception
\* of the callback is reported by the host and the interval keeps running.
TickSends(t, r) ==
    /\ t \in timers
    /\ ~MicrotaskPending
    /\ SendFits(r)
    /\ sockets' = r.sockets
    /\ lastSend' = r.send
    /\ UNCHANGED <<phase, roomId, activeSocket, connected, keepAlive, timers, calls,
                   pendingReconnect, reactVars, lastConnect, wire, syncVars,
                   watchVars>>

\* The interval callback `() => sendMessage({type: "keep-alive"})` of the
\* timer started by the open handler of socket t.
Tick(t) == TickSends(t, SendMessage(sockets, "tick", t, "keep-alive"))

\* The same callback with the sendMessage of part_003.
TickLater(t) == TickSends(t, SendMessageLater(sockets, "tick", t, "keep-alive"))

\* The multiBuild.sync command once the selection is saved:
\* sendMessage({type: "sync", data}); an exception goes to handleError.
SyncCommandSend ==
    /\ phase = "active"
    /\ ~MicrotaskPending
    /\ LET r == SendMessage(sockets, "command", 0, "sync")
       IN  /\ SendFits(r)
           /\ sockets' = r.sockets
           /\ lastSend' = r.send
    /\ UNCHANGED <<phase, roomId, activeSocket, connected, keepAlive, timers, calls,
                   pendingReconnect, reactVars, lastConnect, wire, syncVars,
                   watchVars>>

\* The check of the close handler inverted: `if (connected) return`.
CloseReschedulesInverted == ~connected

\* A close handler with a retry budget of one for the whole process.
CloseReschedulesFirstOnly ==
    connected /\ \A t \in SocketIds : sockets[t].rescheduled = 0

\* Whether the close handler arms the reconnect timer: `if (!connected) return`.
CloseReschedules == connected

\* "close" of socket s: the transport dropped, the handshake failed, or the
\* closing handshake started by close() has finished.
SocketClose(s) ==
    /\ sockets[s].state \in {"connecting", "open", "closing"}
    /\ ~MicrotaskPending
    /\ IF CloseReschedules
       THEN /\ sockets' = [sockets EXCEPT ![s].state = "closed", ![s].rescheduled = @ + 1]
            /\ pendingReconnect' = pendingReconnect + 1
       ELSE /\ sockets' = [sockets EXCEPT ![s].state = "closed"]
            /\ UNCHANGED pendingReconnect
    /\ UNCHANGED <<phase, roomId, activeSocket, connected, keepAlive, timers, calls, reactVars,
                   obsVars>>

----------------------------------------------------------------------------
(* deactivate *)

Deactivate ==
    /\ phase = "active"
    /\ ~MicrotaskPending
    /\ phase' = "deactivated"
    /\ sockets' = Disconnect.sockets
    /\ activeSocket' = Disconnect.activeSocket
    /\ connected' = Disconnect.connected
    /\ timers' = Disconnect.timers
    /\ UNCHANGED <<roomId, keepAlive, calls, pendingReconnect, reactVars, obsVars>>

----------------------------------------------------------------------------
(* Message events and the collaborators' returns *)

\* The live entry of a reaction: in the bag while suspended, in last once returned.
Settle(r, rest) ==
    IF r.pc = "done"
    THEN /\ last' = r
         /\ reactions' = rest
    ELSE /\ reactions' = rest (+) SetToBag({r})
         /\ UNCHANGED last

\* "message" of socket s with text m.
Deliver(s, m) ==
    /\ sockets[s].state \in {"open", "closing"}
    /\ ~MicrotaskPending
    /\ BagCardinality(reactions) < MaxReactions
    /\ Settle(OnMessage(s, m), reactions)
    /\ UNCHANGED <<chanVars, connVars, localBranches, obsVars>>

\* The call reaction r is suspended in ends with res: a git call returns or
\* throws, a cmake command also resolves to a failure code, and the 1 s
\* timer between configure and build only expires.
Return(r, res) ==
    /\ BagIn(r, reactions)
    /\ ~MicrotaskPending
    /\ r.pc = "wait" => res = "ok"
    /\ res = "failed" => r.pc \in {"configure", "build"}
    /\ Settle(Resume(r, res), reactions (-) SetToBag({r}))
    /\ localBranches' = BranchesAfter(r, res)
    /\ UNCHANGED <<chanVars, connVars, obsVars>>

----------------------------------------------------------------------------
(* The multiBuild.sync command *)

\* Whether one more sync may be written within the bounds.
CanPush == Written(Len(sockets)) < MaxSent

\* pushRepoSettings up to `await update(syncDataConfigKey, data, true)`: the
\* repository and the remote picked and the branch entered ("" for a prompt
\* that was dismissed or left empty).
PushRepoSettings(repoPick, remotePick, branchInput) ==
    /\ phase = "active"
    /\ ~MicrotaskPending
    /\ push.pc # "update"
    /\ CanPush
    /\ LET config == syncData
           repo == repoPick
           remote == GetRemote(repo, config, remotePick)
           branch == branchInput
           data == [repo |-> repo, remote |-> remote, branch |-> branch]
           shown == PushRejection(repo, remote, branch)
       IN  push' = IF shown # "none"
                   THEN PushRecord("done", data, shown, "none")
                   ELSE PushRecord("update", data, "none", "none")
    /\ UNCHANGED <<chanVars, connVars, reactVars, lastSend, lastConnect, wire, syncData,
                   watchVars>>

\* The message of the error a sendMessage invocation threw, "none" when it
\* returned.
SendError(send) ==
    CASE send.outcome = "NotConnected" -> "No WebSocket connection found"
      [] send.outcome = "TransportError" -> "WebSocket is not open"
      [] OTHER -> "none"

\* pushRepoSettings after the update: the settings hold data and
\* sendMessage({type: "sync", data}) runs; an update that is rejected or a
\* sendMessage that throws goes to handleError in the command.
PushSaved(saved) ==
    /\ push.pc = "update"
    /\ ~MicrotaskPending
    /\ IF saved
       THEN LET r == SendMessage(sockets, "command", 0, "sync")
            IN  /\ syncData' = push.data
                /\ sockets' = r.sockets
                /\ lastSend' = r.send
                /\ push' = PushRecord("done", push.data,
                                      SendError(r.send),
                                      r.send.outcome)
       ELSE /\ push' = PushRecord("done", push.data, "Unable to write settings", "none")
            /\ UNCHANGED <<syncData, sockets, lastSend>>
    /\ UNCHANGED <<chanVars, phase, roomId, calls, pendingReconnect, reactVars, lastConnect,
                   wire, watchVars>>

----------------------------------------------------------------------------
(* The file watcher of the multiHostCmake variant *)

\* A gate that lets an equal timestamp through.
NewerOrEqual(timestamp, applied) == timestamp >= applied

\* `data.timestamp > lastTimestamp`.
Newer(timestamp, applied) == timestamp > applied

\* The listener up to its first await, once for each of n listeners in turn:
\* it reads and parses the file, and for a build command that is newer it
\* assigns lastTimestamp and calls git.checkout. An unreadable file throws
\* into the catch block. The result is lastTimestamp and builds afterwards.
RECURSIVE Listeners(_, _, _)
Listeners(n, applied, started) ==
    IF n = 0 THEN [lastTimestamp |-> applied, builds |-> started]
    ELSE LET data == watched.file
             runs == /\ data # Unreadable
                     /\ Newer(data.timestamp, applied)
                     /\ data.command = "build"
         IN  IF runs
             THEN Listeners(n - 1, data.timestamp,
                            Append(started, [timestamp |-> data.timestamp,
                                             branch |-> data.branch, pc |-> "checkout"]))
             ELSE Listeners(n - 1, applied, started)

\* The multiHostCmake.startWatcher command with a workspace open:
\* fs.watchFile registers one more listener; the first one starts the polling.
StartWatcher ==
    /\ watched.listeners < MaxListeners
    /\ watched' = [watched EXCEPT !.listeners = @ + 1,
                                  !.changed = IF watched.listeners = 0 THEN FALSE ELSE @]
    /\ UNCHANGED <<chanVars, connVars, reactVars, lastSend, lastConnect, wire, syncVars,
                   lastTimestamp, builds>>

\* Another host writes build-command.json.
WriteFile(content) ==
    /\ watched' = [watched EXCEPT !.file = content, !.changed = TRUE]
    /\ UNCHANGED <<chanVars, connVars, reactVars, lastSend, lastConnect, wire, syncVars,
                   lastTimestamp, builds>>

\* The poll of fs.watchFile finds the file changed and calls every listener.
FileChanged ==
    /\ watched.changed
    /\ watched.listeners > 0
    /\ LET r == Listeners(watched.listeners, lastTimestamp, builds)
       IN  /\ lastTimestamp' = r.lastTimestamp
           /\ builds' = r.builds
    /\ watched' = [watched EXCEPT !.changed = FALSE]
    /\ UNCHANGED <<chanVars, connVars, reactVars, lastSend, lastConnect, wire, syncVars>>

\* The command a listener awaits ends: the next one is called, or the
\* exception goes to the catch block.
BuildStep(i, ok) ==
    /\ builds[i].pc \in {"checkout", "configure", "build"}
    /\ builds' = [builds EXCEPT ![i].pc =
                      IF ~ok THEN "failed"
                      ELSE CASE @ = "checkout" -> "configure"
                             [] @ = "configure" -> "build"
                             [] OTHER -> "done"]
    /\ UNCHANGED <<chanVars, connVars, reactVars, lastSend, lastConnect, wire, syncVars,
                   lastTimestamp, watched>>

----------------------------------------------------------------------------
(* The wire text of a sync envelope *)

\* sendMessage({type: "sync", data: r}): JSON.stringify({type, data}).
Encode(r) ==
    /\ wire.stage = "idle"
    /\ wire' = [stage |-> "sent", record |-> r,
                text |-> Stringify(Obj(<<Member(TypeKey, Str(SyncType)), Member(DataKey, r)>>)),
                parsed |-> SyntaxError]
    /\ UNCHANGED <<chanVars, connVars, reactVars, lastSend, lastConnect, syncVars,
                   watchVars>>

\* The message handler of the receiver: JSON.parse(data.toString()).
Decode ==
    /\ wire.stage = "sent"
    /\ wire' = [wire EXCEPT !.stage = "received", !.parsed = Parse(wire.text)]
    /\ UNCHANGED <<chanVars, connVars, reactVars, lastSend, lastConnect, syncVars,
                   watchVars>>

----------------------------------------------------------------------------

Next ==
    \/ Activate
    \/ \E r \in Rooms \cup {NoRoom} : ConfigChange(r)
    \/ ReconnectCommand
    \/ ReconnectTimer
    \/ \E i \in 1..Len(calls) : ConnectTeardown(i)
    \/ \E i \in 1..Len(calls), tokenOk \in BOOLEAN : ConnectCreate(i, tokenOk)
    \/ \E s \in SocketIds : SocketOpen(s)
    \/ \E s \in SocketIds : SocketClose(s)
    \/ Deactivate

Spec == Init /\ [][Next]_vars

\* The channel with its heartbeat and the sync command: overlapping connect
\* calls come from the reconnect command, closes from the transport.
NextHeartbeat ==
    \/ Activate
    \/ CanStartBeating /\ ReconnectCommand
    \/ CanStartBeating /\ ReconnectTimer
    \/ \E i \in 1..Len(calls) : ConnectTeardown(i)
    \/ \E i \in 1..Len(calls) : ConnectCreate(i, TRUE)
    \/ \E s \in SocketIds : SocketOpen(s)
    \/ \E s \in SocketIds : SocketClose(s)
    \/ \E t \in timers : Tick(t)
    \/ SyncCommandSend

SpecHeartbeat == Init /\ [][NextHeartbeat]_vars

\* The retry loop: the channel init() opens, the reconnect command,
\* transport closes and the reconnect timers.  An armed timer fires, the
\* continuation behind `await getServerConfig()` runs and the token provider
\* answers; whether a socket ever opens or closes is up to the network.
NextRetry ==
    \/ Activate
    \/ ReconnectCommand
    \/ ReconnectTimer
    \/ \E i \in 1..Len(calls) : ConnectTeardown(i)
    \/ \E i \in 1..Len(calls), tokenOk \in BOOLEAN : ConnectCreate(i, tokenOk)
    \/ \E s \in SocketIds : SocketOpen(s)
    \/ \E s \in SocketIds : SocketClose(s)

SpecRetry ==
    /\ Init /\ [][NextRetry]_vars
    /\ WF_vars(Activate)
    /\ WF_vars(ReconnectTimer)
    /\ WF_vars(\E i \in 1..Len(calls) : ConnectTeardown(i))
    /\ WF_vars(\E i \in 1..Len(calls), tokenOk \in BOOLEAN : ConnectCreate(i, tokenOk))

\* The same channel built from part_003.
NextLater ==
    \/ Activate
    \/ CanStartBeating /\ ReconnectCommand
    \/ CanStartBeating /\ ReconnectTimer
    \/ \E i \in 1..Len(calls) : ConnectTeardown(i)
    \/ \E i \in 1..Len(calls) : ConnectCreate(i, TRUE)
    \/ \E s \in SocketIds : SocketOpen(s)
    \/ \E s \in SocketIds : SocketClose(s)
    \/ \E t \in timers : TickLater(t)
    \/ SyncCommandSend

SpecLater == Init /\ [][NextLater]_vars

\* The dispatcher on the channel that init() opens.
NextDispatch ==
    \/ Activate
    \/ \E i \in 1..Len(calls) : ConnectTeardown(i)
    \/ \E i \in 1..Len(calls) : ConnectCreate(i, TRUE)
    \/ \E s \in SocketIds : SocketOpen(s)
    \/ \E s \in SocketIds, m \in Inbound : Deliver(s, m)
    \/ \E r \in BagToSet(reactions), res \in Endings : Return(r, res)

SpecDispatch == Init /\ [][NextDispatch]_vars

\* The dispatcher with the results of the cmake commands told apart.
NextBuild ==
    \/ Activate
    \/ \E i \in 1..Len(calls) : ConnectTeardown(i)
    \/ \E i \in 1..Len(calls) : ConnectCreate(i, TRUE)
    \/ \E s \in SocketIds : SocketOpen(s)
    \/ \E s \in SocketIds, m \in Inbound : Deliver(s, m)
    \/ \E r \in BagToSet(reactions), res \in Results : Return(r, res)

SpecBuild == Init /\ [][NextBuild]_vars

\* A sync record for a branch the repository has.
SyncMain ==
    Envelope(TRUE, TRUE, "sync", TRUE, [repo |-> "app", remote |-> "origin", branch |-> "main"],
             Undefined, Undefined)

\* Whether the relay delivers one more envelope within the bounds of the
\* specification below.
CanReact == BagCardinality(reactions) < MaxInFlight

\* The dispatcher together with the life of the channel: reactions suspended
\* in their collaborator calls while the socket closes, the reconnect timer
\* re-establishes the channel, and deactivate() disconnects it.
NextReact ==
    \/ Activate
    \/ CanStartBeating /\ ReconnectTimer
    \/ \E i \in 1..Len(calls) : ConnectTeardown(i)
    \/ \E i \in 1..Len(calls) : ConnectCreate(i, TRUE)
    \/ \E s \in SocketIds : SocketOpen(s)
    \/ \E s \in SocketIds : SocketClose(s)
    \/ Deactivate
    \/ \E s \in SocketIds : CanReact /\ Deliver(s, SyncMain)
    \/ \E r \in BagToSet(reactions), res \in Endings : Return(r, res)

SpecReact == Init /\ [][NextReact]_vars

\* Sync records through JSON.stringify and JSON.parse.
NextCodec ==
    \/ \E r \in SyncRecords : Encode(r)
    \/ Decode

SpecCodec == Init /\ [][NextCodec]_vars

\* The envelopes that need no collaborator: an error and an ack.
ErrorInbound == Envelope(TRUE, TRUE, "error", TRUE, NoData, Undefined, ErrorText)
AckInbound == Envelope(TRUE, TRUE, "ack", FALSE, NoData, Undefined, Undefined)

\* The dispatcher and the heartbeat on the channel that init() opens: the
\* interval timer fires and the relay delivers sync, error and ack envelopes
\* while reactions are suspended.
NextBusy ==
    \/ Activate
    \/ \E i \in 1..Len(calls) : ConnectTeardown(i)
    \/ \E i \in 1..Len(calls) : ConnectCreate(i, TRUE)
    \/ \E s \in SocketIds : SocketOpen(s)
    \/ \E t \in timers : Tick(t)
    \/ \E s \in SocketIds, m \in {SyncMain, ErrorInbound, AckInbound} : Deliver(s, m)
    \/ \E r \in BagToSet(reactions), res \in Endings : Return(r, res)

SpecBusy == Init /\ [][NextBusy]_vars

\* The sync command while the channel comes and goes.
NextSync ==
    \/ Activate
    \/ \E i \in 1..Len(calls) : ConnectTeardown(i)
    \/ \E i \in 1..Len(calls), tokenOk \in BOOLEAN : ConnectCreate(i, tokenOk)
    \/ \E s \in SocketIds : SocketOpen(s)
    \/ \E s \in SocketIds : SocketClose(s)
    \/ Deactivate
    \/ \E repo \in OpenRepos \cup {""}, remote \in RemoteNames, branch \in BranchNames :
            PushRepoSettings(repo, remote, branch)
    \/ \E saved \in BOOLEAN : PushSaved(saved)

SpecSync == Init /\ [][NextSync]_vars

\* The file watcher.
NextWatcher ==
    \/ StartWatcher
    \/ \E content \in BuildCommands \cup {Unreadable} : WriteFile(content)
    \/ FileChanged
    \/ \E i \in 1..Len(builds), ok \in BOOLEAN : BuildStep(i, ok)

SpecWatcher == Init /\ [][NextWatcher]_vars

----------------------------------------------------------------------------
(* Properties of the room channel (checked under Spec) *)

\* Sockets that can still deliver events to their handlers as a channel:
\* created, not asked to close, not closed.
LiveSockets == {s \in SocketIds : sockets[s].state \in {"connecting", "open"}}

\* C1: at most one live socket exists at any time, whatever connectWebSocket
\* invocations overlap at their awaits.
C1_AtMostOneLiveSocket == Cardinality(LiveSockets) <= 1

\* C2: the close event of a socket retired by disconnectWebSocket never
\* schedules a reconnect attempt.
C2_RetiredNeverReconnects ==
    \A s \in SocketIds : sockets[s].retired => sockets[s].rescheduled = 0

\* The active socket s has closed without a disconnectWebSocket.
ClosedWhileActive(s) == activeSocket = s /\ sockets[s].state = "closed"

\* C3 (state part): once the active socket has closed without a disconnect,
\* its close handler has scheduled one reconnect attempt, and no close
\* handler ever schedules more than one.
C3_OneReconnectScheduled ==
    /\ \A s \in SocketIds : ClosedWhileActive(s) =>
            sockets[s].rescheduled = 1 /\ ~sockets[s].retired
    /\ \A s \in SocketIds : sockets[s].rescheduled <= 1

\* C3 (step part): the close event of the active socket arms one more
\* reconnect timer.
C3_CloseArmsOneTimer ==
    \A s \in SocketIds :
        (activeSocket = s /\ sockets[s].state # "closed"
            /\ activeSocket' = s /\ sockets'[s].state = "closed")
        => pendingReconnect' = pendingReconnect + 1

\* C3: when the active channel's transport closes without a preceding
\* disconnect, its close handler schedules exactly one reconnect attempt.
C3_UnexpectedCloseReconnectsOnce ==
    []C3_OneReconnectScheduled /\ [][C3_CloseArmsOneTimer]_vars

C3_Witness ==
    \E s \in SocketIds :
        ClosedWhileActive(s) /\ sockets[s].rescheduled = 1 /\ pendingReconnect = 1

----------------------------------------------------------------------------
(* Properties of the dispatcher (checked under SpecDispatch) *)

AllReactions == BagToSet(reactions) \cup {last}

IsSync(r) == r.msg.json /\ r.msg.type = "sync" /\ r.msg.hasData

Complete(d) == d.repo # "" /\ d.remote # "" /\ d.branch # ""

Entry(op, args, res) == [op |-> op, args |-> args, res |-> res]

\* The collaborator calls of a checkoutBranch that succeeds, for record d, on
\* an existing local branch and on a new one.
ExistingBranchCalls(d) ==
    << Entry("repositories.find", <<d.repo>>, "found"),
       Entry("fetch", <<d.remote, d.branch>>, "ok"),
       Entry("getBranch", <<d.branch>>, "found"),
       Entry("checkout", <<d.branch>>, "ok"),
       Entry("pull", <<>>, "ok") >>

NewBranchCalls(d) ==
    << Entry("repositories.find", <<d.repo>>, "found"),
       Entry("fetch", <<d.remote, d.branch>>, "ok"),
       Entry("getBranch", <<d.branch>>, "undefined"),
       Entry("checkout", <<d.remote \o "/" \o d.branch>>, "ok"),
       Entry("createBranch", <<d.branch, "true", d.remote \o "/" \o d.branch>>, "ok"),
       Entry("setBranchUpstream", <<d.branch, d.remote \o "/" \o d.branch>>, "ok") >>

IsPrefix(p, q) == Len(p) <= Len(q) /\ p = SubSeq(q, 1, Len(p))

BuildOps == {"cmake.configure", "cmake.build"}
GitOps == {"repositories.find", "fetch", "getBranch", "checkout", "pull", "createBranch",
           "setBranchUpstream"}

\* The index of the first configure or build call in a log, 0 when none.
FirstBuildCall(log) ==
    IF \E k \in 1..Len(log) : log[k].op \in BuildOps
    THEN CHOOSE k \in 1..Len(log) :
            /\ log[k].op \in BuildOps
            /\ \A j \in 1..(k - 1) : log[j].op \notin BuildOps
    ELSE 0

\* C4: two reactions are never suspended in their pipelines at the same
\* time: a second sync message starts no collaborator call until the
\* pipeline of the first has completed.
C4_SingleFlight == BagCardinality(reactions) <= 1

\* C5: configure and build are invoked only after checkoutBranch has
\* reported success for that message: every call made before the first
\* configure has returned, and they are the calls of a successful checkout.
C5_BuildOnlyAfterCheckout ==
    \A r \in AllReactions :
        LET k == FirstBuildCall(r.log)
        IN  k > 0 =>
              /\ IsSync(r)
              /\ r.log[k].op = "cmake.configure"
              /\ SubSeq(r.log, 1, k - 1) \in
                    {ExistingBranchCalls(r.msg.data), NewBranchCalls(r.msg.data)}

C5_Witness ==
    /\ last.outcome = "built"
    /\ \E k \in 1..Len(last.log) : last.log[k].op = "cmake.build"

\* The handling of r met an error: undecodable text, a sync envelope without
\* a complete record, an unrecognized type, or a git or cmake call that threw
\* (a fetch that throws is reported by checkoutBranch itself).
MetError(r) ==
    \/ ~r.msg.json
    \/ r.msg.json /\ r.msg.type = "sync" /\ ~(r.msg.hasData /\ Complete(r.msg.data))
    \/ r.msg.json /\ r.msg.type \notin {"hello", "ack", "error", "sync"}
    \/ \E k \in 1..Len(r.log) : r.log[k].res = "throw" /\ r.log[k].op # "fetch"

\* C6 (state part): a reaction that met an error has returned through the
\* catch block of the handler with the error shown to the user, its socket
\* is still open, and the next envelope on that socket is dispatched.
C6_ErrorCaughtAndShown ==
    \A r \in AllReactions :
        r.outcome # "none" /\ MetError(r) =>
            /\ r.pc = "done" /\ r.outcome = "error" /\ Len(r.shown) = 1
            /\ sockets[r.sock].state = "open"
            /\ BagCardinality(reactions) < MaxReactions =>
                    \A m \in Inbound : ENABLED Deliver(r.sock, m)

\* C6 (step part): a step of the dispatcher leaves the sockets, the channel
\* handle, the connected flag and the heartbeat as they are.
C6_DispatchLeavesChannel ==
    (reactions' # reactions \/ last' # last) =>
        UNCHANGED <<sockets, activeSocket, connected, keepAlive, timers, calls,
                    pendingReconnect>>

\* C6: an error raised while handling one envelope is caught at the handler
\* boundary and surfaced; it never closes the socket or changes the channel
\* state, and later envelopes on the channel are still dispatched.
C6_ErrorsStayInReaction ==
    []C6_ErrorCaughtAndShown /\ [][C6_DispatchLeavesChannel]_vars

C6_Witness ==
    /\ last.outcome = "error"
    /\ \E k \in 1..Len(last.log) : last.log[k].res = "throw"
    /\ BagCardinality(reactions) > 0
    /\ sockets[last.sock].state = "open"

\* C7: a sync record with repo, remote or branch missing or empty fails with
\* the invalid-payload error and calls no git or build collaborator.
C7_InvalidPayloadRejected ==
    \A r \in AllReactions :
        IsSync(r) /\ ~Complete(r.msg.data) =>
            /\ r.outcome = "error"
            /\ r.shown = <<"Invalid sync message">>
            /\ r.log = <<>>

C7_Witness ==
    /\ IsSync(last)
    /\ last.msg.data.repo = "app" /\ last.msg.data.remote = "" /\ last.msg.data.branch = "main"
    /\ last.outcome = "error"

\* C8: a valid sync record whose repo matches no open repository ends as
\* skipped: no error is shown, nothing is fetched or checked out, and
\* configure and build are not invoked.
C8_MissingRepoSkipped ==
    \A r \in AllReactions :
        IsSync(r) /\ Complete(r.msg.data) /\ r.msg.data.repo \notin OpenRepos =>
            /\ r.outcome = "skipped"
            /\ r.shown = <<>>
            /\ r.log = <<Entry("repositories.find", <<r.msg.data.repo>>, "undefined")>>

C8_Witness ==
    /\ IsSync(last) /\ Complete(last.msg.data)
    /\ last.msg.data.repo = "lib"
    /\ last.outcome = "skipped"

\* The calls r has made after getBranch, up to the first configure.
CallsAfterGetBranch(r) ==
    LET k == FirstBuildCall(r.log)
        git == IF k = 0 THEN r.log ELSE SubSeq(r.log, 1, k - 1)
    IN  IF \E j \in 1..Len(git) : git[j].op = "getBranch"
        THEN LET j == CHOOSE j \in 1..Len(git) : git[j].op = "getBranch"
             IN  [i \in 1..(Len(git) - j) |-> <<git[j + i].op, git[j + i].args>>]
        ELSE <<>>

\* The result of getBranch in the log of r ("none" before it is called).
GetBranchResult(r) ==
    IF \E j \in 1..Len(r.log) : r.log[j].op = "getBranch"
    THEN (r.log[CHOOSE j \in 1..Len(r.log) : r.log[j].op = "getBranch"]).res
    ELSE "none"

ExistingBranchTail(d) == << <<"checkout", <<d.branch>> >>, <<"pull", <<>> >> >>

NewBranchTail(d) ==
    << <<"checkout", <<d.remote \o "/" \o d.branch>> >>,
       <<"createBranch", <<d.branch, "true", d.remote \o "/" \o d.branch>> >>,
       <<"setBranchUpstream", <<d.branch, d.remote \o "/" \o d.branch>> >> >>

C10_UnknownTypeRejected ==
    \A r \in AllReactions :
        r.msg.object /\ r.msg.type \notin {"hello", "ack", "error", "sync"} /\ r.outcome # "none" =>
            /\ r.outcome = "error"
            /\ r.shown = <<"Unknown message type">>
            /\ r.log = <<>>
            /\ sockets[r.sock].state = "open"

C10_Witness ==
    /\ last.msg.object /\ last.msg.type = "bogus"
    /\ last.outcome = "error"
    /\ sockets[last.sock].state = "open"

----------------------------------------------------------------------------
(* Properties of sendMessage and the heartbeat (checked under SpecHeartbeat
   and, for the sendMessage of part_003, under SpecLater) *)

\* C11: a sendMessage invocation made while no channel is open (no handle
\* held, or the socket held still connecting, closing or closed) fails with
\* an error (the not-connected error of sendMessage or the transport's own
\* not-open error), and one made while the socket held is open writes its
\* envelope.
C11_SendNeedsOpenChannel ==
    lastSend.by # "none" =>
        IF lastSend.state = "open"
        THEN lastSend.outcome = "written"
        ELSE lastSend.outcome \in {"NotConnected", "TransportError"}

\* C12: the open handler of a socket sends its hello on that same socket,
\* so every open socket carries a hello as its first envelope and has a
\* heartbeat timer running for it.
C12_OpenSendsHelloFirst ==
    /\ lastSend.by = "open" => lastSend.own /\ lastSend.outcome = "written"
    /\ \A s \in SocketIds :
            sockets[s].state = "open" =>
                /\ sockets[s].sent # <<>>
                /\ sockets[s].sent[1] = "hello"
                /\ s \in timers

\* C13: the heartbeat timer of a socket never fires, and attempts a
\* keep-alive write on that socket, after the socket's close event.
C13_NoTickAfterClose ==
    ~(lastSend.by = "tick" /\ lastSend.own /\ lastSend.fromState = "closed")

\* C14: a heartbeat tick that finds the active socket open writes one
\* keep-alive envelope to it.
C14_TickWritesKeepAlive ==
    (lastSend.by = "tick" /\ lastSend.state = "open") =>
        lastSend.type = "keep-alive" /\ lastSend.outcome = "written"

----------------------------------------------------------------------------
(* Properties of disconnectWebSocket and of a failing connect (checked under
   Spec) *)

\* A step in which disconnectWebSocket ran with a handle held: the only
\* code that clears activeSocket.
DisconnectedLive == activeSocket # 0 /\ activeSocket' = 0

\* C15 (step): when disconnectWebSocket returns after a channel was live, no
\* handle is held, connected is false, the socket has been asked to close
\* and no heartbeat timer is running.
C15_DisconnectStep ==
    DisconnectedLive =>
        /\ ~connected'
        /\ sockets'[activeSocket].state \in {"closing", "closed"}
        /\ timers' = {}

\* C15: every disconnectWebSocket call on a live channel leaves no handle,
\* connected false, the socket closing and no heartbeat timer active.
C15_DisconnectReleasesChannel == [][C15_DisconnectStep]_vars

\* The channel state as disconnectWebSocket returns it when it changes
\* nothing and does not throw.
Untouched ==
    [sockets |-> sockets, activeSocket |-> activeSocket, connected |-> connected,
     timers |-> timers, raised |-> FALSE]

\* C16 (state): with no handle held, disconnectWebSocket returns without
\* raising and leaves the sockets, the handle, the flag and the timers alone.
C16_NoHandleNoOp == activeSocket = 0 => Disconnect = Untouched

\* C16 (step): deactivate() with no handle held changes no channel state and
\* arms no reconnect timer; and after any step in which disconnectWebSocket
\* ran, calling it again would change nothing.
C16_DisconnectStep ==
    /\ (phase = "active" /\ phase' = "deactivated" /\ activeSocket = 0) =>
            UNCHANGED <<sockets, activeSocket, connected, keepAlive, timers, pendingReconnect>>
    /\ (DisconnectedLive \/ (phase = "active" /\ phase' = "deactivated")) =>
            /\ Disconnect' = Untouched'
            /\ pendingReconnect' = pendingReconnect

\* C16: disconnectWebSocket without a handle does not raise, changes no
\* state and schedules no reconnect, and a second call in a row has no
\* further effect.
C16_DisconnectIdempotent == []C16_NoHandleNoOp /\ [][C16_DisconnectStep]_vars

\* deactivate() has run disconnectWebSocket before any socket was created,
\* with a connectWebSocket call still suspended.
C16_Witness == phase = "deactivated" /\ sockets = <<>> /\ activeSocket = 0 /\ calls # <<>>

\* C17 (state): a connectWebSocket call whose token provider failed has
\* created no socket and its error has reached the caller's handleError.
C17_AuthFailureSurfaced ==
    lastConnect.token = "no session" =>
        /\ ~lastConnect.created
        /\ lastConnect.shown = "No GitHub auth session found"

\* C17 (step): the step in which such a call throws creates no socket,
\* leaves the handle and the flag as they are, arms no reconnect timer and
\* starts no connectWebSocket call.
C17_AuthFailureStep ==
    (Len(calls') < Len(calls) /\ lastConnect'.token = "no session") =>
        /\ UNCHANGED <<sockets, activeSocket, connected, pendingReconnect>>
        /\ Len(calls') = Len(calls) - 1

\* C17: a token provider failure makes connectWebSocket fail with an error
\* that reaches the caller's error handler; no socket is created and no
\* reconnect attempt is scheduled because of it.
C17_AuthFailureNotRetried == []C17_AuthFailureSurfaced /\ [][C17_AuthFailureStep]_vars

\* A reconnect whose teardown retired the open socket and whose token
\* acquisition then failed: no handle, no call and no timer are left.
C17_Witness ==
    /\ lastConnect.shown = "No GitHub auth session found"
    /\ activeSocket = 0 /\ calls = <<>> /\ pendingReconnect = 0
    /\ \E s \in SocketIds : sockets[s].retired /\ sockets[s].state = "closed"

----------------------------------------------------------------------------
(* The retry loop (checked under SpecRetry) *)

\* C18 (state): the close of an active socket that a reconnect attempt
\* created schedules the next attempt, however many attempts came before.
C18_RetryClosesReschedule ==
    \A s \in SocketIds :
        (sockets[s].retry /\ ClosedWhileActive(s)) => sockets[s].rescheduled = 1

\* C18 (progress): the unexpected close of socket n leads to a connect
\* attempt that creates socket n + 1 or ends in its caller's error handler.
C18_CloseLeadsToAttempt ==
    \A n \in 1..(MaxSockets - 1) :
        (Len(sockets) = n /\ ClosedWhileActive(n))
            ~> (Len(sockets) > n \/ lastConnect.shown # "")

\* C18: reconnection is retried once per close event without bound: the
\* close of a socket created by a reconnect attempt schedules the next
\* attempt, so while attempts keep producing sockets that close, another
\* attempt always follows.
C18_RetriedPerClose == []C18_RetryClosesReschedule /\ C18_CloseLeadsToAttempt

\* Two retries in a row: socket 2, created by a reconnect attempt, closed
\* and scheduled the attempt that created socket 3.
C18_Witness ==
    /\ Len(sockets) = 3
    /\ sockets[2].retry /\ sockets[2].rescheduled = 1
    /\ sockets[3].retry

----------------------------------------------------------------------------
(* Properties of the build step (checked under SpecBuild) and of a failing
   fetch (checked under SpecDispatch) *)

\* The indices of the calls of op in a log.
CallsOf(log, op) == {k \in 1..Len(log) : log[k].op = op}

\* C19: build is invoked only after configure has been invoked and has
\* returned success; after a configure that reported failure, build is not
\* invoked for that reaction.
C19_BuildOnlyAfterConfigureSuccess ==
    \A r \in AllReactions :
        \A b \in CallsOf(r.log, "cmake.build") :
            \E c \in CallsOf(r.log, "cmake.configure") :
                c < b /\ r.log[c].res = "ok"

\* The log of a sync message whose fetch fails.
FailedFetchCalls(d) ==
    << Entry("repositories.find", <<d.repo>>, "found"),
       Entry("fetch", <<d.remote, d.branch>>, "throw") >>

\* C20: when fetch fails for a sync message, one error is shown, the
\* reaction ends without checkout, branch creation, pull, configure or
\* build, and fetch is not called again; no reaction calls fetch twice.
C20_FetchFailureTerminal ==
    \A r \in AllReactions :
        /\ Cardinality(CallsOf(r.log, "fetch")) <= 1
        /\ (\E k \in CallsOf(r.log, "fetch") : r.log[k].res = "throw") =>
                /\ r.log = FailedFetchCalls(r.msg.data)
                /\ r.shown = <<"Error fetching Git branch">>
                /\ r.pc = "done" /\ r.outcome = "skipped"

\* A fetch has failed while another reaction is still in its pipeline.
C20_Witness ==
    /\ IsSync(last) /\ last.log = FailedFetchCalls(last.msg.data)
    /\ last.outcome = "skipped"
    /\ BagCardinality(reactions) > 0

----------------------------------------------------------------------------
(* Properties of the envelope types and of malformed input (checked under
   SpecDispatch) *)

\* The types section 6 of the specification lists.
ClosedTypes == {"hello", "keep-alive", "ack", "error", "sync"}

Shows(r, text) == \E k \in 1..Len(r.shown) : r.shown[k] = text

\* C21: the dispatcher accepts exactly the types hello, keep-alive, ack,
\* error and sync: an inbound envelope of one of these types is handled
\* without the unknown-type error, and an envelope of any other type is
\* rejected with it.
C21_ClosedTypeSet ==
    \A r \in AllReactions :
        r.msg.object /\ r.outcome # "none" =>
            (r.msg.type \in ClosedTypes <=> ~Shows(r, "Unknown message type"))

\* C22: on an inbound error envelope {type: "error", data: {message}} the
\* message in data.message is shown to the user, and no collaborator is
\* called.
C22_ErrorEnvelopeSurfaced ==
    \A r \in AllReactions :
        r.msg.object /\ r.msg.type = "error" /\ r.msg.hasData /\ r.outcome # "none" =>
            /\ Shows(r, r.msg.dataMessage)
            /\ r.log = <<>>

\* Inbound text that is not JSON, or that parses to a value without a type.
Malformed(m) == ~m.json \/ ~m.object \/ m.type = NoType

\* The errors the handler raises on malformed text.
MalformedErrors == {"SyntaxError", "TypeError", "Unknown message type"}

\* C23 (state part): the handler invoked on malformed text has returned
\* through its catch block with one error shown, has called no collaborator,
\* and its socket is open.
C23_MalformedCaught ==
    \A r \in AllReactions :
        Malformed(r.msg) /\ r.outcome # "none" =>
            /\ r.pc = "done" /\ r.outcome = "error"
            /\ Len(r.shown) = 1 /\ r.shown[1] \in MalformedErrors
            /\ r.logged = r.shown
            /\ r.log = <<>>
            /\ sockets[r.sock].state = "open"

\* C23 (step part): handling malformed text leaves the channel, the pending
\* reactions and the repository as they are.
C23_MalformedStep ==
    (last' # last /\ Malformed(last'.msg)) =>
        UNCHANGED <<chanVars, connVars, reactions, localBranches>>

\* C23: inbound text that is not valid JSON, or that decodes to a value
\* without a type field, never crashes the handler and starts no pipeline:
\* one classified error is surfaced and the channel stays open.
C23_MalformedInputRejected ==
    []C23_MalformedCaught /\ [][C23_MalformedStep]_vars

C23_Witness ==
    /\ last.msg.json /\ ~last.msg.object
    /\ last.shown = <<"TypeError">>
    /\ \E r \in BagToSet(reactions) : r.pc = "fetch" /\ sockets[r.sock].state = "open"

\* The reactions to message m that have called fetch, suspended or returned.
PipelinesFor(m) == {r \in AllReactions : r.msg = m /\ CallsOf(r.log, "fetch") # {}}

\* C24: when the same sync envelope is delivered more than once, the
\* checkout-then-build pipeline for it is run at most once.
C24_DuplicateSyncSuppressed ==
    \A m \in Inbound :
        /\ Cardinality(PipelinesFor(m)) <= 1
        /\ \A r \in PipelinesFor(m) \cap BagToSet(reactions) : CopiesIn(r, reactions) = 1

\* C29 (state part): the handler invoked on a hello or an ack has returned
\* with no collaborator called and nothing shown or logged.
C29_HelloAckNoOp ==
    \A r \in AllReactions :
        r.msg.object /\ r.msg.type \in {"hello", "ack"} /\ r.outcome # "none" =>
            /\ r.pc = "done" /\ r.outcome = "handled"
            /\ r.log = <<>> /\ r.shown = <<>> /\ r.logged = <<>>

\* C29 (step part): a step of a message handler, whatever the envelope,
\* leaves the handle, the connected flag and the heartbeat timers as they
\* are; the handler of a hello or an ack also writes nothing to a socket and
\* leaves the repository and the suspended reactions alone.
C29_HandlerStep ==
    /\ (reactions' # reactions \/ last' # last) =>
            UNCHANGED <<activeSocket, connected, keepAlive, timers>>
    /\ (last' # last /\ last'.msg.type \in {"hello", "ack"}) =>
            UNCHANGED <<sockets, lastSend, localBranches, reactions>>

\* C29: handling any inbound envelope leaves the channel handle, the
\* connected flag and the heartbeat timer unchanged, and handling hello or
\* ack sends no envelope and invokes no git or build collaborator.
C29_HandlerFrame ==
    []C29_HelloAckNoOp /\ [][C29_HandlerStep]_vars

C29_Witness ==
    /\ last.msg.type = "ack" /\ last.outcome = "handled"
    /\ activeSocket = last.sock /\ connected /\ keepAlive = last.sock /\ last.sock \in timers
    /\ \E r \in BagToSet(reactions) : r.msg.type = "sync" /\ r.pc = "configure"

----------------------------------------------------------------------------
(* Properties of the room of the channel (checked under Spec) *)

\* No connectWebSocket call is under way and no reconnect timer is armed.
ConnectCallsCompleted == calls = <<>> /\ pendingReconnect = 0

\* The socket held in activeSocket is live; it is the one the last
\* connectWebSocket to finish has created.
ActiveLive == activeSocket \in LiveSockets /\ lastConnect.created

\* C25: after the configured room id has changed and all connect calls it
\* triggered have completed, there is at most one live socket and the one
\* held in activeSocket is connected to the room configured last, also when
\* configuration changes and connect calls overlap.
C25_ChannelFollowsRoom ==
    (phase = "active" /\ roomId # NoRoom /\ ConnectCallsCompleted) =>
        /\ Cardinality(LiveSockets) <= 1
        /\ ActiveLive => lastConnect.room = roomId

----------------------------------------------------------------------------
(* Properties of reactions while the channel changes (checked under
   SpecReact) *)

\* Reaction r to a complete sync record has ended for a reason of its own:
\* its build has returned, one of its calls has thrown, its repository is not
\* open, or its fetch has failed.
EndedOnItsOwn(r) ==
    \/ /\ r.outcome = "built"
       /\ r.log[Len(r.log)] = Entry("cmake.build", <<>>, "ok")
    \/ /\ r.outcome = "error"
       /\ r.log[Len(r.log)].res = "throw"
    \/ /\ r.outcome = "skipped"
       /\ \/ r.log = <<Entry("repositories.find", <<r.msg.data.repo>>, "undefined")>>
          \/ r.log = FailedFetchCalls(r.msg.data)

\* C27 (state part): a sync reaction that has ended has ended for a reason
\* of its own, and a suspended one is resumed when its call returns or
\* throws, whatever the state of the socket that delivered its message.
C27_EndsOnItsOwn ==
    /\ \A r \in AllReactions :
            IsSync(r) /\ Complete(r.msg.data) /\ r.pc = "done" => EndedOnItsOwn(r)
    /\ \A r \in BagToSet(reactions) :
            ~MicrotaskPending =>
                /\ ENABLED Return(r, "ok")
                /\ r.pc # "wait" => ENABLED Return(r, "throw")

\* C27 (step part): a step that changes the sockets, the handle, the flag,
\* the timers, the connect calls or the phase leaves every reaction as it is.
C27_ChannelStep ==
    (<<sockets, activeSocket, connected, timers, calls, pendingReconnect, phase>>'
        # <<sockets, activeSocket, connected, timers, calls, pendingReconnect, phase>>)
    => UNCHANGED <<reactions, last, localBranches>>

\* C27: a reaction in flight is never cancelled by channel events: when the
\* channel is disconnected, closes or is re-established while the reaction is
\* suspended in checkout or build, the reaction still runs to completion or
\* to its own failure.
C27_ReactionNotCancelled ==
    []C27_EndsOnItsOwn /\ [][C27_ChannelStep]_vars

\* A reaction is suspended in configure or build, the socket that delivered
\* its message has closed, and the channel has been re-established.
C27_Witness ==
    \E r \in BagToSet(reactions) :
        /\ r.pc \in {"configure", "build"} /\ ~r.stale
        /\ sockets[r.sock].state = "closed"
        /\ activeSocket \notin {0, r.sock} /\ sockets[activeSocket].state = "open"

\* C30: a message delivered by a socket that has been retired (closed by
\* disconnectWebSocket, or superseded in activeSocket by a newer socket) is
\* not dispatched: it starts no pipeline.
C30_RetiredSocketNotDispatched ==
    \A r \in AllReactions : r.stale => r.log = <<>>

----------------------------------------------------------------------------
(* Properties of the events that arrive while a reaction is suspended
   (checked under SpecBusy) *)

\* A message handler is suspended in a collaborator call.
Suspended == reactions # EmptyBag

\* C28 (state part): while a reaction is suspended and no continuation of a
\* connect call is queued, every running interval timer can fire, and every
\* open socket can deliver an error or an ack envelope (within the bounds on
\* written envelopes and on handlers).
C28_EventsStillTaken ==
    (Suspended /\ CallsAt("config") = {}) =>
        /\ \A t \in timers :
                Written(Len(sockets)) < MaxSent => ENABLED Tick(t)
        /\ \A s \in SocketIds :
                (sockets[s].state = "open" /\ BagCardinality(reactions) < MaxReactions) =>
                    ENABLED Deliver(s, ErrorInbound) /\ ENABLED Deliver(s, AckInbound)

\* C28 (step part): a tick during the suspension writes keep-alive on the
\* open socket held in activeSocket, and an error or ack envelope during the
\* suspension is handled to its end in the same step; both leave the
\* suspended reactions as they are.
C28_HandledDuringSuspension ==
    /\ (Suspended /\ sockets' # sockets /\ lastSend'.by = "tick") =>
            /\ lastSend'.type = "keep-alive" /\ lastSend'.outcome = "written"
            /\ sockets'[activeSocket].sent = Append(sockets[activeSocket].sent, "keep-alive")
            /\ UNCHANGED <<reactions, last>>
    /\ (Suspended /\ last' # last /\ last'.msg.type \in {"error", "ack"}) =>
            /\ last'.pc = "done" /\ last'.outcome = "handled"
            /\ UNCHANGED reactions

\* C28: while a sync reaction is suspended in a collaborator call, heartbeat
\* ticks still send keep-alive and inbound error and ack envelopes are still
\* handled, without waiting for the reaction to finish.
C28_NotBlockedBySuspension ==
    []C28_EventsStillTaken /\ [][C28_HandledDuringSuspension]_vars

\* A sync reaction is suspended in fetch, the timer of its socket has
\* written a keep-alive and an error envelope has been handled.
C28_Witness ==
    /\ \E r \in BagToSet(reactions) : IsSync(r) /\ r.pc = "fetch"
    /\ lastSend.by = "tick" /\ lastSend.outcome = "written"
    /\ last.msg.type = "error" /\ last.outcome = "handled"
    /\ \E t \in timers : ENABLED Tick(t)

----------------------------------------------------------------------------
(* Properties of the wire form (checked under SpecCodec) *)

\* C26: for every valid sync record r, decoding the wire text of the sync
\* envelope that carries r yields type sync and data equal to r.
C26_RoundTrip ==
    wire.stage = "received" =>
        /\ wire.parsed.ok
        /\ Get(wire.parsed.value, TypeKey) = Str(SyncType)
        /\ Get(wire.parsed.value, DataKey) = wire.record

\* A record with a quote, a backslash or a line feed in its repo, with the
\* build-tool field, has been encoded and decoded.
C26_Witness ==
    /\ wire.stage = "received"
    /\ Len(wire.record.members) = 4
    /\ Get(wire.record, RepoKey) \in {Str(<<Quote, Backslash>>), Str(<<LineFeed, "n">>)}
    /\ Len(wire.text) > 50

----------------------------------------------------------------------------
(* Invariants of the module state (checked under Spec) *)

\* C32: in every state between two event handlers and at every suspension
\* point, connected is true exactly when activeSocket holds a socket.
C32_FlagMatchesHandle == connected <=> activeSocket # 0

\* The handle has been released by disconnectWebSocket while another
\* connectWebSocket call is suspended at getAuthToken.
C32_Witness ==
    /\ activeSocket = 0 /\ ~connected
    /\ \E s \in SocketIds : sockets[s].retired
    /\ CallsAt("token") # {}

\* C33: at most one heartbeat timer is running at any time, and keepAlive
\* holds its handle: no running interval timer has had its handle
\* overwritten or lost.
C33_OneHeartbeatTimer ==
    /\ Cardinality(timers) <= 1
    /\ timers \subseteq {keepAlive}

\* C34: once deactivate() has run, the process never holds or creates a
\* channel again: no reconnect timer armed before and no connect call in
\* flight establishes a socket afterwards.
C34_NoChannelAfterDeactivate ==
    phase = "deactivated" =>
        /\ activeSocket = 0
        /\ \A s \in SocketIds : sockets[s].state \notin {"connecting", "open"}

----------------------------------------------------------------------------
(* connectWebSocket calls that fail (checked under Spec) *)

\* C37 (state part): a connectWebSocket call that found no room id has
\* thrown without asking for a token and without creating a socket.
C37_NoRoomFails ==
    lastConnect.shown = "No room ID in config" =>
        ~lastConnect.created /\ lastConnect.token = "none"

\* C37 (step part): the step in which a call finds no room id and throws
\* leaves the sockets, the handle, the flag and the heartbeat as they are.
C37_NoRoomStep ==
    \A i \in 1..Len(calls) :
        (calls[i].pc = "config" /\ calls[i].room = NoRoom /\ calls' = RemoveAt(calls, i)) =>
            /\ UNCHANGED <<sockets, activeSocket, connected, keepAlive, timers>>
            /\ lastConnect'.shown = "No room ID in config"

\* C37: connectWebSocket invoked while the settings hold no room id fails
\* before it touches the channel: the live channel, the connected flag and
\* the heartbeat timer are unchanged and no socket is created.
C37_NoRoomLeavesChannel == []C37_NoRoomFails /\ [][C37_NoRoomStep]_vars

\* The call has failed for want of a room id while a channel is open with
\* its heartbeat running.
C37_Witness ==
    /\ lastConnect.shown = "No room ID in config"
    /\ roomId = NoRoom
    /\ activeSocket # 0 /\ connected
    /\ sockets[activeSocket].state = "open"
    /\ keepAlive = activeSocket /\ keepAlive \in timers

\* A connectWebSocket call ends in this step because its token acquisition
\* has failed.
TokenFailure ==
    /\ Len(calls') < Len(calls)
    /\ lastConnect'.token = "no session" /\ ~lastConnect'.created

\* C38 (step): when a connectWebSocket call fails at the token acquisition,
\* the channel it has torn down is not restored and its heartbeat is
\* cancelled: a handle held afterwards is that of a socket that was not
\* retired (the newer socket of an overlapping call), connected is true
\* only with such a handle, and no interval timer of a retired socket is
\* running.
C38_TokenFailureStep ==
    TokenFailure =>
        /\ activeSocket' # 0 => ~sockets'[activeSocket'].retired
        /\ connected' => activeSocket' # 0
        /\ \A t \in timers' : ~sockets'[t].retired

\* C38: a connectWebSocket call that fails at auth-token acquisition ends
\* with the previously live channel retired, not restored, and its
\* heartbeat cancelled.
C38_FailedConnectLeavesNoChannel == [][C38_TokenFailureStep]_vars

----------------------------------------------------------------------------
(* The sync command (checked under SpecSync) *)

\* pushRepoSettings resumes after the settings update.
PushResumes == push.pc = "update" /\ push'.pc = "done"

\* C35: a sync command that meets no channel handle fails with the
\* not-connected error and leaves the stored sync data as it was; the stored
\* sync data changes only in a step that also sends the sync envelope.
C35_AllOrNothingStep ==
    /\ PushResumes /\ activeSocket = 0 =>
            /\ push'.shown = "No WebSocket connection found"
            /\ syncData' = syncData
    /\ syncData' # syncData => push'.outcome = "written"

C35_SyncAllOrNothing == [][C35_AllOrNothingStep]_vars

\* The failing case of C35: the command ended with the not-connected error
\* and the settings hold the record it was about to send.
C35_Witness ==
    /\ push.pc = "done"
    /\ push.outcome = "NotConnected"
    /\ syncData = push.data
    /\ syncData # NoSyncData

\* C36: every record the sync command has written to the channel passes the
\* check of handleSyncData, and a command that ended at a missing repo,
\* remote or branch changed neither the settings nor the channel.
C36_SentRecordValid ==
    push.pc \in {"update", "done"} /\ push.shown \notin {"Cannot sync, no repo specified",
            "Cannot sync, no remote specified", "Cannot sync, no branch specified"} =>
        ValidRecord(push.data)

C36_MissingFieldStep ==
    push' # push /\ push'.pc = "done" /\ ~ValidRecord(push'.data) =>
        /\ syncData' = syncData
        /\ sockets' = sockets
        /\ lastSend' = lastSend

C36_SyncRecordComplete == []C36_SentRecordValid /\ [][C36_MissingFieldStep]_vars

\* The command wrote its record to the channel for the second time and the
\* settings hold that record.
C36_Witness ==
    /\ push.pc = "done"
    /\ push.outcome = "written"
    /\ ValidRecord(push.data)
    /\ syncData = push.data
    /\ \E s \in SocketIds : Len(SelectSeq(sockets[s].sent, LAMBDA e : e = "sync")) = 2

----------------------------------------------------------------------------
(* The file watcher (checked under SpecWatcher) *)

\* The sequences started so far have strictly increasing timestamps, none
\* above lastTimestamp.
C31_Increasing ==
    /\ \A j, k \in 1..Len(builds) : j < k => builds[j].timestamp < builds[k].timestamp
    /\ \A k \in 1..Len(builds) : builds[k].timestamp <= lastTimestamp

\* lastTimestamp never decreases, and a step starts a sequence only for a
\* build command whose timestamp is above lastTimestamp.
C31_SuppressedStep ==
    /\ lastTimestamp' >= lastTimestamp
    /\ Len(builds') > Len(builds) =>
            /\ watched.file.command = "build"
            /\ watched.file.timestamp > lastTimestamp
            /\ Len(builds') = Len(builds) + 1

\* C31: lastTimestamp never decreases, and the checkout/configure/build
\* sequence starts for a build command only when its timestamp is strictly
\* greater than every timestamp applied before.
C31_DuplicateSuppressed == []C31_Increasing /\ [][C31_SuppressedStep]_vars

\* Two listeners have polled a build command older than the last one applied,
\* after a sequence was started for every timestamp, and none was started
\* for it.
C31_Witness ==
    /\ Len(builds) = MaxTimestamp
    /\ lastTimestamp = MaxTimestamp
    /\ watched.listeners = 2
    /\ ~watched.changed
    /\ watched.file.command = "build"
    /\ watched.file.timestamp = 1

====
